---- MODULE Spec2Model ----
(***************************************************************************)
(* uvenv: the environment registry (EnvironmentManager), the activation    *)
(* resolver (ActivationManager) and the CLI handlers that call them.       *)
(*                                                                         *)
(* The file system under the base directory is the program's state: for    *)
(* every environment name whether its directory exists, how many entries   *)
(* the toolchain wrote into it, and the content of its metadata file.      *)
(* Every public operation is one action; what the operating system and the *)
(* external toolchain answer (exit status, I/O errors) is drawn with \E.   *)
(***************************************************************************)
EXTENDS Integers, Sequences, FiniteSets, TLC

\* ---------------------------------------------------------------- bounds
\* Entries of a complete environment tree written by the toolchain.
MaxFiles == 1
\* datetime.now() reads one of the instants 0..MaxTime.
MaxTime == 1

\* ---------------------------------------------------------------- inputs
Names == {"a", "b"}
\* Order in which the base directory is enumerated.
NameOrder == <<"a", "b">>
Versions == {"3.11", "3.12"}
\* Texts the toolchain writes to stderr when it exits non-zero.
Stderrs == {"no interpreter found", "permission denied"}
\* Texts of the OSError shutil.rmtree raises.
OsErrors == {"EACCES"}
None == "None"
Shells == {"bash", "zsh", "fish", "powershell", "tcsh", None}
\* Values of the SHELL environment variable, as character sequences
\* (<<>> is the unset variable, which os.environ.get turns into "").
ShellEnvs ==
    { <<>>,
      <<"/", "b", "a", "s", "h">>,
      <<"/", "z", "s", "h">>,
      <<"/", "f", "i", "s", "h">>,
      <<"/", "k", "s", "h">>,
      \* fish installed below a directory whose name contains "bash"
      <<"/", "b", "a", "s", "h", "/", "f", "i", "s", "h">> }
OsNames == {"posix", "nt"}

VARIABLES
    dir,      \* dir[n]: the directory <base>/<n> exists
    files,    \* files[n]: entries the toolchain wrote below <base>/<n>
    meta,     \* meta[n]: content of the metadata file of n
    last,     \* the call that completed last and how it ended
    ret,      \* what that call returned (<<>> when it raised)
    cli,      \* the CLI command that completed last and its exit status
    removed   \* history: names removed with success and not created since

vars == <<dir, files, meta, last, ret, cli, removed>>
disk == <<dir, files, meta>>

\* ------------------------------------------------------- metadata files
\* A metadata file is absent, or holds text.  Text is modelled by what
\* json.load makes of it: "object" (a mapping holding the fields listed in
\* keys), "json_other" (valid JSON that is no mapping), "not_json" (text
\* json.load rejects); a file of kind "unreadable" makes open raise OSError.
File(kind, keys, n, pv, at, used, act) ==
    [kind |-> kind, keys |-> keys, name |-> n, python_version |-> pv,
     created_at |-> at, last_used |-> used, active |-> act]

Absent == File("absent", {}, "", "", 0, None, FALSE)
Truncated == File("not_json", {}, "", "", 0, None, FALSE)

\* json.dump(metadata, f, indent=2): the text of a mapping with these fields.
json_dump(metadata) ==
    File("object", DOMAIN metadata, metadata.name, metadata.python_version,
         metadata.created_at, metadata.last_used, metadata.active)

\* json.load(f) on an existing file: the exception it ends with, if any,
\* and whether the value it returns is a dict.
json_load(m) ==
    CASE m.kind = "unreadable" -> [exc |-> "OSError", is_dict |-> FALSE]
      [] m.kind = "not_json" -> [exc |-> "JSONDecodeError", is_dict |-> FALSE]
      [] m.kind = "json_other" -> [exc |-> "none", is_dict |-> FALSE]
      [] OTHER -> [exc |-> "none", is_dict |-> TRUE]

\* dict.get(key, default)
Get(m, key, default) == IF key \in m.keys THEN m[key] ELSE default

\* ---------------------------------------------------------- PathManager
get_env_path(name) == <<"base", name>>
get_env_bin_path(name) == get_env_path(name) \o <<"bin">>
environment_exists(d, name) == d.dir[name]
list_environments(d) == SelectSeq(NameOrder, LAMBDA n : d.dir[n])

\* --------------------------------------------------------- file system
\* The disk as one value, so that the steps of a handler compose.
Disk == [dir |-> dir, files |-> files, meta |-> meta]
SetDisk(d) == dir' = d.dir /\ files' = d.files /\ meta' = d.meta
Min(x, y) == IF x < y THEN x ELSE y

\* shutil.rmtree called on the base directory instead of env_path: every
\* environment is deleted.
rmtree_base(d, name, rm, left, keep) ==
    [dir |-> [n \in DOMAIN d.dir |-> FALSE],
     files |-> [n \in DOMAIN d.files |-> 0],
     meta |-> [n \in DOMAIN d.meta |-> Absent]]

\* shutil.rmtree(env_path).  rm = "ok": the whole tree is gone, the
\* metadata file (which lies in it) included.  Otherwise it raised OSError
\* part-way: the directory is still there, with `left` of its entries, and
\* the metadata file was deleted already or not (keep).
rmtree(d, name, rm, left, keep) ==
    IF rm = "ok"
    THEN [dir |-> [d.dir EXCEPT ![name] = FALSE],
          files |-> [d.files EXCEPT ![name] = 0],
          meta |-> [d.meta EXCEPT ![name] = Absent]]
    ELSE [dir |-> d.dir,
          files |-> [d.files EXCEPT ![name] = Min(left, @)],
          meta |-> [d.meta EXCEPT ![name] = IF keep THEN @ ELSE Absent]]

\* subprocess.run(["uv", "venv", env_path, "--python", v], check=True).
\* tool = "ok": exit status 0, the complete tree is written.
\* tool = "nonzero": CalledProcessError; the toolchain had created the
\*   directory or not (made) and written k entries into it.
\* tool = "not_started": the executable could not be run, nothing written.
uv_venv(d, name, tool, made, k) ==
    CASE tool = "ok" ->
           [d EXCEPT !.dir[name] = TRUE, !.files[name] = MaxFiles]
      [] tool = "nonzero" /\ made ->
           [d EXCEPT !.dir[name] = TRUE, !.files[name] = k]
      [] OTHER -> d

\* ------------------------------------------------------------- outcomes
Call(op, name, pv, shell, exc, msg, detail, tool) ==
    [op |-> op, name |-> name, python_version |-> pv, shell |-> shell,
     exc |-> exc, msg |-> msg, detail |-> detail, tool |-> tool,
     shell_env |-> <<>>, os_name |-> "posix"]

NoCall == Call("none", "", "", None, "none", "", "", "not_invoked")
NoCli == [cmd |-> "none", exit |-> -1, confirmed |-> TRUE]

Init ==
    /\ dir = [n \in Names |-> FALSE]
    /\ files = [n \in Names |-> 0]
    /\ meta = [n \in Names |-> Absent]
    /\ last = NoCall
    /\ ret = <<>>
    /\ cli = NoCli
    /\ removed = {}

\* ---------------------------------------------------- EnvironmentManager
\* _create_metadata with the active flag written as True.
_create_metadata_active(d, name, python_version, now, wr) ==
    IF wr = "ok"
    THEN [d EXCEPT !.meta[name] =
             json_dump([name |-> name, python_version |-> python_version,
                        created_at |-> now, last_used |-> None,
                        active |-> TRUE])]
    ELSE d

\* _create_metadata(name, python_version): the disk after it.  wr = "ok":
\* the file is written.  "open_fails": open(.., "w") raised OSError, no
\* file.  "write_fails": json.dump raised OSError after open created the
\* file, which is left truncated.
_create_metadata(d, name, python_version, now, wr) ==
    LET metadata == [name |-> name,
                     python_version |-> python_version,
                     created_at |-> now,
                     last_used |-> None,
                     active |-> FALSE]
    IN CASE wr = "ok" -> [d EXCEPT !.meta[name] = json_dump(metadata)]
         [] wr = "write_fails" -> [d EXCEPT !.meta[name] = Truncated]
         [] OTHER -> d

WriteOutcomes == {"ok", "open_fails", "write_fails"}

\* The except clause of create: env_path.exists() and shutil.rmtree.
rollback(d, name, rm, left) ==
    IF environment_exists(d, name) THEN rmtree(d, name, rm, left, TRUE) ELSE d

\* create without its first check.
create_never_rejects(d, name) == FALSE

\* The first check of create: `if self.path_manager.environment_exists(name)`.
create_rejects(d, name) == environment_exists(d, name)

\* EnvironmentManager.create(name, python_version)
create(name, python_version) ==
    LET call(exc, msg, detail, tool) ==
            Call("create", name, python_version, None, exc, msg, detail, tool)
    IN IF create_rejects(Disk, name)
       THEN /\ last' = call("RuntimeError", "already exists", "",
                            "not_invoked")
            /\ ret' = <<>>
            /\ UNCHANGED <<dir, files, meta, removed>>
       ELSE \/ \E wr \in WriteOutcomes, now \in 0..MaxTime :
                 \* the toolchain succeeded; _create_metadata runs
                 /\ SetDisk(_create_metadata(
                        uv_venv(Disk, name, "ok", TRUE, MaxFiles),
                        name, python_version, now, wr))
                 /\ last' = call(IF wr = "ok" THEN "none" ELSE "OSError",
                                 "", "", "ok")
                 /\ ret' = <<>>
                 /\ removed' = IF wr = "ok" THEN removed \ {name}
                               ELSE removed
            \/ \E made \in BOOLEAN, stderr \in Stderrs :
               \E k \in IF made THEN 0..MaxFiles ELSE {0} :
                 \* CalledProcessError, and the roll-back succeeds
                 /\ SetDisk(rollback(uv_venv(Disk, name, "nonzero", made, k),
                                     name, "ok", 0))
                 /\ last' = call("RuntimeError",
                                 "Failed to create environment", stderr,
                                 "nonzero")
                 /\ ret' = <<>>
                 /\ UNCHANGED removed
            \/ \E k \in 0..MaxFiles : \E left \in 0..k :
                 \* CalledProcessError, and shutil.rmtree raises OSError
                 \* inside the except clause
                 /\ SetDisk(rollback(uv_venv(Disk, name, "nonzero", TRUE, k),
                                     name, "fails", left))
                 /\ last' = call("OSError", "", "", "nonzero")
                 /\ ret' = <<>>
                 /\ UNCHANGED removed
            \/ \* subprocess.run raised FileNotFoundError: no except clause
               \* catches it
               /\ SetDisk(uv_venv(Disk, name, "not_started", FALSE, 0))
               /\ last' = call("FileNotFoundError", "", "", "not_started")
               /\ ret' = <<>>
               /\ UNCHANGED removed

\* EnvironmentManager.remove(name)
remove(name) ==
    LET call(exc, msg, detail) ==
            Call("remove", name, "", None, exc, msg, detail, "not_invoked")
    IN IF ~environment_exists(Disk, name)
       THEN /\ last' = call("RuntimeError", "does not exist", "")
            /\ ret' = <<>>
            /\ UNCHANGED <<dir, files, meta, removed>>
       ELSE \/ /\ SetDisk(rmtree(Disk, name, "ok", 0, FALSE))
               /\ last' = call("none", "", "")
               /\ ret' = <<>>
               /\ removed' = removed \cup {name}
            \/ \E left \in 0..files[name], keep \in BOOLEAN, e \in OsErrors :
               /\ SetDisk(rmtree(Disk, name, "fails", left, keep))
               /\ last' = call("RuntimeError", "Failed to remove environment",
                               e)
               /\ ret' = <<>>
               /\ UNCHANGED removed

\* EnvironmentManager._get_environment_info(name): the exception that
\* escapes it, if any, and the record it returns.
_get_environment_info(d, name) ==
    LET m == d.meta[name]
        info == [name |-> name,
                 path |-> get_env_path(name),
                 python_version |-> "unknown",
                 status |-> "inactive"]
        loaded == json_load(m)
    IN CASE m.kind = "absent" -> [exc |-> "none", info |-> info]
         [] loaded.exc \in {"JSONDecodeError", "OSError"} ->
              [exc |-> "none", info |-> info]
         [] loaded.exc = "none" /\ ~loaded.is_dict ->
              \* metadata.get on a value that is no dict
              [exc |-> "AttributeError", info |-> info]
         [] OTHER ->
              [exc |-> "none",
               info |-> [info EXCEPT
                   !.python_version = Get(m, "python_version", "unknown"),
                   !.status = IF Get(m, "active", FALSE)
                              THEN "active" ELSE "inactive"]]

\* The value EnvironmentManager.list() computes on disk d: the exception
\* that escapes the loop, if any, and the records appended.
list_value(d) ==
    LET names == list_environments(d)
        got == [i \in 1..Len(names) |-> _get_environment_info(d, names[i])]
        bad == {i \in 1..Len(names) : got[i].exc # "none"}
    IN [exc |-> IF bad = {} THEN "none"
                ELSE got[CHOOSE i \in bad : \A j \in bad : i <= j].exc,
        envs |-> [i \in 1..Len(names) |-> got[i].info]]

\* EnvironmentManager.list()
list ==
    LET v == list_value(Disk)
    IN /\ last' = Call("list", "", "", None, v.exc, "", "", "not_invoked")
       /\ ret' = IF v.exc = "none" THEN v.envs ELSE <<>>
       /\ UNCHANGED <<dir, files, meta, removed>>

\* A command string: the word it starts with and the file it names.
Command(word, file) == [word |-> word, file |-> file]

\* get_activation_script with an update-on-activate path: it marks the
\* environment active in its metadata file.
get_activation_script_marks_active(name) ==
    /\ IF ~environment_exists(Disk, name)
       THEN /\ last' = Call("get_activation_script", name, "", None,
                            "RuntimeError", "does not exist", "",
                            "not_invoked")
            /\ ret' = <<>>
            /\ meta' = meta
       ELSE /\ last' = Call("get_activation_script", name, "", None,
                            "none", "", "", "not_invoked")
            /\ ret' = <<Command("source",
                                get_env_bin_path(name) \o <<"activate">>)>>
            /\ meta' = [meta EXCEPT ![name] =
                           IF @.kind = "object"
                           THEN [@ EXCEPT !.active = TRUE] ELSE @]
    /\ UNCHANGED <<dir, files, removed>>

\* EnvironmentManager.get_activation_script(name)
get_activation_script(name) ==
    /\ IF ~environment_exists(Disk, name)
       THEN /\ last' = Call("get_activation_script", name, "", None,
                            "RuntimeError", "does not exist", "",
                            "not_invoked")
            /\ ret' = <<>>
       ELSE /\ last' = Call("get_activation_script", name, "", None,
                            "none", "", "", "not_invoked")
            /\ ret' = <<Command("source",
                                get_env_bin_path(name) \o <<"activate">>)>>
    /\ UNCHANGED <<dir, files, meta, removed>>

\* ---------------------------------------------------- ActivationManager
\* Python's `sub in s` on strings.
Contains(sub, s) ==
    \E i \in 1..(Len(s) - Len(sub) + 1) :
        SubSeq(s, i, i + Len(sub) - 1) = sub

\* ActivationManager._detect_shell()
_detect_shell(shell_env, os_name) ==
    CASE Contains(<<"b", "a", "s", "h">>, shell_env) -> "bash"
      [] Contains(<<"z", "s", "h">>, shell_env) -> "zsh"
      [] Contains(<<"f", "i", "s", "h">>, shell_env) -> "fish"
      [] os_name = "nt" -> "powershell"
      [] OTHER -> "bash"

_generate_bash_script(bin_path) == Command("source", bin_path \o <<"activate">>)
\* _generate_fish_script naming the bash file.
_generate_fish_script_plain(bin_path) ==
    Command("source", bin_path \o <<"activate">>)
_generate_fish_script(bin_path) ==
    Command("source", bin_path \o <<"activate.fish">>)
_generate_powershell_script(bin_path) ==
    Command("&", bin_path \o <<"Activate.ps1">>)

\* The dispatch of ActivationManager.get_activation_script on the shell.
activation_script(bin_path, shell) ==
    CASE shell \in {"bash", "zsh"} -> _generate_bash_script(bin_path)
      [] shell = "fish" -> _generate_fish_script(bin_path)
      [] shell = "powershell" -> _generate_powershell_script(bin_path)
      [] OTHER -> _generate_bash_script(bin_path)

\* get_activation_script without the existence check.
get_activation_script_unchecked(name, shell, shell_env, os_name) ==
    /\ last' = [Call("ActivationManager.get_activation_script", name, "",
                     shell, "none", "", "", "not_invoked")
                EXCEPT !.shell_env = shell_env, !.os_name = os_name]
    /\ ret' = <<activation_script(get_env_bin_path(name),
                  IF shell = None THEN _detect_shell(shell_env, os_name)
                  ELSE shell)>>
    /\ UNCHANGED <<dir, files, meta, removed>>

\* ActivationManager.get_activation_script(name, shell)
ActivationManager_get_activation_script(name, shell, shell_env, os_name) ==
    LET call(exc, msg) ==
            [Call("ActivationManager.get_activation_script", name, "", shell,
                  exc, msg, "", "not_invoked")
             EXCEPT !.shell_env = shell_env, !.os_name = os_name]
        sh == IF shell = None THEN _detect_shell(shell_env, os_name) ELSE shell
    IN /\ IF ~environment_exists(Disk, name)
          THEN /\ last' = call("RuntimeError", "does not exist")
               /\ ret' = <<>>
          ELSE /\ last' = call("none", "")
               /\ ret' = <<activation_script(get_env_bin_path(name), sh)>>
       /\ UNCHANGED <<dir, files, meta, removed>>


\* ActivationManager.get_deactivation_script(shell): "deactivate" in every
\* branch.
get_deactivation_script(shell, shell_env, os_name) ==
    LET sh == IF shell = None THEN _detect_shell(shell_env, os_name) ELSE shell
    IN /\ last' = [Call("ActivationManager.get_deactivation_script", "", "",
                        shell, "none", "", "", "not_invoked")
                   EXCEPT !.shell_env = shell_env, !.os_name = os_name]
       /\ ret' = <<CASE sh \in {"bash", "zsh"} -> Command("deactivate", <<>>)
                     [] sh = "fish" -> Command("deactivate", <<>>)
                     [] sh = "powershell" -> Command("deactivate", <<>>)
                     [] OTHER -> Command("deactivate", <<>>)>>
       /\ UNCHANGED <<dir, files, meta, removed>>

\* ------------------------------------------------------------------ CLI
\* The managers whose modules are not part of the registry (PythonManager,
\* FreezeManager): a call ends normally or raises, and leaves the
\* environment directories alone.
collaborator(op, name) ==
    \E exc \in {"none", "RuntimeError"} :
        /\ last' = Call(op, name, "", None, exc, "", "", "not_invoked")
        /\ ret' = <<>>
        /\ UNCHANGED <<dir, files, meta, removed>>

\* A handler whose except clause does not raise typer.Exit(1).
exit_status_always_zero(exc) == 0

\* `except Exception as e: ... raise typer.Exit(1)`; a handler that returns
\* ends the process with status 0.
exit_status(exc) == IF exc = "none" THEN 0 ELSE 1
Ran(cmd) == cli' = [cmd |-> cmd, exit |-> exit_status(last'.exc),
                    confirmed |-> TRUE]

cli_install == \E v \in Versions : collaborator("install", v) /\ Ran("python install")

\* list_installed, then list_available: the first that raises ends the try.
cli_python_list == collaborator("list_installed/list_available", "") /\ Ran("python list")

cli_create == \E name \in Names, v \in Versions : create(name, v) /\ Ran("create")

cli_activate == \E name \in Names : get_activation_script(name) /\ Ran("activate")

cli_env_list == list /\ Ran("list")

cli_remove ==
    \E name \in Names, force \in BOOLEAN, confirm \in BOOLEAN :
        IF ~force /\ ~confirm
        THEN /\ last' = NoCall
             /\ ret' = <<>>
             /\ cli' = [cmd |-> "remove", exit |-> 0, confirmed |-> FALSE]
             /\ UNCHANGED <<dir, files, meta, removed>>
        ELSE remove(name) /\ Ran("remove")

cli_lock == \E name \in Names : collaborator("lock", name) /\ Ran("lock")

cli_thaw == \E name \in Names : collaborator("thaw", name) /\ Ran("thaw")

\* shell_integration: ActivationManager defines no generate_shell_integration,
\* so the attribute lookup raises AttributeError inside the try.
cli_shell_integration ==
    /\ last' = Call("generate_shell_integration", "", "", None,
                    "AttributeError", "", "", "not_invoked")
    /\ ret' = <<>>
    /\ Ran("shell-integration")
    /\ UNCHANGED <<dir, files, meta, removed>>

\* ------------------------------------------------------ direct API calls
\* ActivationManager.get_activation_script is not reached from the CLI; it
\* is called as a library function.  SHELL and os.name are read only when
\* shell is None.
api_activation_manager ==
    \E name \in Names, shell \in Shells :
      \E shell_env \in IF shell = None THEN ShellEnvs ELSE {<<>>},
         os_name \in IF shell = None THEN OsNames ELSE {"posix"} :
        /\ ActivationManager_get_activation_script(name, shell, shell_env,
                                                   os_name)
        /\ cli' = NoCli

api_get_deactivation_script ==
    \E shell \in Shells :
      \E shell_env \in IF shell = None THEN ShellEnvs ELSE {<<>>},
         os_name \in IF shell = None THEN OsNames ELSE {"posix"} :
        /\ get_deactivation_script(shell, shell_env, os_name)
        /\ cli' = NoCli

Next ==
    \/ cli_install
    \/ cli_python_list
    \/ cli_create
    \/ cli_activate
    \/ cli_env_list
    \/ cli_remove
    \/ cli_lock
    \/ cli_thaw
    \/ cli_shell_integration
    \/ api_activation_manager
    \/ api_get_deactivation_script

Spec == Init /\ [][Next]_vars

\* --------------------------------------------- metadata written by others
\* Contents a metadata file can have that the registry never writes.
ForeignContents ==
    { File("unreadable", {}, "", "", 0, None, FALSE),
      File("not_json", {}, "", "", 0, None, FALSE),
      File("json_other", {}, "", "", 0, None, FALSE),
      File("object", {}, "", "", 0, None, FALSE),
      File("object", {"python_version", "active"}, "", "3.11", 0, None, TRUE) }

\* Something other than the registry rewrites or deletes the metadata file
\* of an existing environment.
foreign_write ==
    \E name \in Names, content \in ForeignContents \cup {Absent} :
        /\ dir[name]
        /\ meta' = [meta EXCEPT ![name] = content]
        /\ last' = NoCall
        /\ ret' = <<>>
        /\ cli' = NoCli
        /\ UNCHANGED <<dir, files, removed>>

NextExt == Next \/ foreign_write

SpecExt == Init /\ [][NextExt]_vars


\* =============================================================== claims
\* The error taxonomy, read off the RuntimeError messages.
AlreadyExists(c) == c.exc = "RuntimeError" /\ c.msg = "already exists"
NotFound(c) == c.exc = "RuntimeError" /\ c.msg = "does not exist"
CreationFailed(c) ==
    c.exc = "RuntimeError" /\ c.msg = "Failed to create environment"
RemovalFailed(c) ==
    c.exc = "RuntimeError" /\ c.msg = "Failed to remove environment"

\* The record list() returns for an environment whose metadata is not used.
DefaultInfo(n) ==
    [name |-> n, path |-> <<"base", n>>, python_version |-> "unknown",
     status |-> "inactive"]

\* C1: whenever the toolchain exits non-zero, the environment directory does
\* not exist when create ends, and create ends with CreationFailed carrying
\* the toolchain's stderr.
C1_RollbackInvariant ==
    (last.op = "create" /\ last.tool = "nonzero") =>
        /\ ~dir[last.name]
        /\ CreationFailed(last)
        /\ last.detail \in Stderrs

\* C2: create on a name whose environment exists fails with AlreadyExists,
\* does not invoke the toolchain and leaves directory and metadata as they
\* were, whatever python_version is passed.
C2_CreateExisting ==
    [][(last'.op = "create" /\ dir[last'.name]) =>
          /\ AlreadyExists(last')
          /\ last'.tool = "not_invoked"
          /\ UNCHANGED disk]_vars

\* A create with another version than the stored one was rejected.
C2_Witness ==
    /\ last.op = "create"
    /\ AlreadyExists(last)
    /\ meta[last.name].kind = "object"
    /\ meta[last.name].python_version # last.python_version

\* C3: after any sequence of completed create and remove operations, an
\* environment's directory exists if and only if its metadata file exists.
C3_DirIffMetadata ==
    \A n \in Names : dir[n] <=> meta[n].kind # "absent"

\* C4: after a successful create(name, python_version), list() yields
\* exactly one record named name, and it has the python_version passed,
\* status "inactive" and path <base>/<name>.
C4_CreateThenList ==
    (last.op = "create" /\ last.exc = "none") =>
        LET v == list_value(Disk)
            hits == {i \in 1..Len(v.envs) : v.envs[i].name = last.name}
        IN /\ v.exc = "none"
           /\ Cardinality(hits) = 1
           /\ \A i \in hits :
                v.envs[i] = [name |-> last.name,
                             path |-> <<"base", last.name>>,
                             python_version |-> last.python_version,
                             status |-> "inactive"]

\* A create succeeded while the other environment exists with another
\* version, so that list() returns two records.
C4_Witness ==
    /\ last.op = "create"
    /\ last.exc = "none"
    /\ \E n \in Names :
         /\ n # last.name
         /\ meta[n].kind = "object"
         /\ meta[n].python_version # last.python_version

\* C5: from a successful remove(name) until a later create(name, ..)
\* succeeds, environment_exists(name) is false and list() holds no record
\* named name.
C5_RemovedStaysAbsent ==
    \A n \in removed :
        /\ ~environment_exists(Disk, n)
        /\ \A i \in 1..Len(list_value(Disk).envs) :
             list_value(Disk).envs[i].name # n

\* C6: remove, EnvironmentManager.get_activation_script and
\* ActivationManager.get_activation_script (any shell, also None) on a name
\* whose environment does not exist fail with NotFound, return nothing and
\* leave directories and metadata unchanged.
C6_NotFound ==
    [][(/\ last'.op \in {"remove", "get_activation_script",
                         "ActivationManager.get_activation_script"}
        /\ ~dir[last'.name]) =>
          /\ NotFound(last')
          /\ ret' = <<>>
          /\ UNCHANGED disk]_vars

\* The activation manager, with no shell given, was asked for an
\* environment that does not exist while another one does.
C6_Witness ==
    /\ last.op = "ActivationManager.get_activation_script"
    /\ last.shell = None
    /\ NotFound(last)
    /\ \E n \in Names : dir[n]

\* C7: list() never raises, and returns the default record (python_version
\* "unknown", status "inactive") for every environment whose metadata file
\* is absent, unreadable, not JSON, or JSON that is no mapping.
C7_ListToleratesCorruptMetadata ==
    last.op = "list" =>
        /\ last.exc = "none"
        /\ \A n \in Names :
             (dir[n] /\ meta[n].kind \in {"absent", "unreadable", "not_json",
                                          "json_other"}) =>
                 \E i \in 1..Len(ret) : ret[i] = DefaultInfo(n)

\* C8: for an existing environment and a given shell, the command names
\* activate.fish for "fish", Activate.ps1 for "powershell", and is a source
\* command naming activate for every other shell; the file lies in the
\* environment's bin directory.
C8_ShellDispatch ==
    (/\ last.op = "ActivationManager.get_activation_script"
     /\ last.exc = "none"
     /\ last.shell # None) =>
        LET bin == get_env_bin_path(last.name)
        IN /\ Len(ret) = 1
           /\ SubSeq(ret[1].file, 1, 3) = bin
           /\ Len(ret[1].file) = 4
           /\ ret[1].file[4] =
                CASE last.shell = "fish" -> "activate.fish"
                  [] last.shell = "powershell" -> "Activate.ps1"
                  [] OTHER -> "activate"
           /\ last.shell \notin {"fish", "powershell"} =>
                ret[1].word = "source"

\* A fish command was returned for an existing environment.
C8_Witness ==
    /\ last.op = "ActivationManager.get_activation_script"
    /\ last.exc = "none"
    /\ last.shell = "fish"
    /\ Len(ret) = 1

\* C9: every failure of create, remove or get_activation_script is one of
\* AlreadyExists, NotFound, CreationFailed (with the toolchain's stderr) or
\* RemovalFailed (with the file system's error).
C9_OnlyRegistryErrors ==
    (/\ last.op \in {"create", "remove", "get_activation_script"}
     /\ last.exc # "none") =>
        \/ AlreadyExists(last)
        \/ NotFound(last)
        \/ CreationFailed(last) /\ last.detail \in Stderrs
        \/ RemovalFailed(last) /\ last.detail \in OsErrors

\* C10: a CLI command exits with status 1 exactly when the manager operation
\* it called raised, and with 0 otherwise; a remove whose confirmation was
\* declined removes nothing and exits with 0.
C10_ExitStatus ==
    [][cli'.cmd # "none" =>
          /\ cli'.exit = IF last'.exc # "none" THEN 1 ELSE 0
          /\ (cli'.cmd = "remove" /\ ~cli'.confirmed) =>
                (UNCHANGED disk /\ cli'.exit = 0 /\ last'.op = "none")]_vars

\* A confirmed remove failed part-way and the process exited with 1, and
\* the directory is still there.
C10_Witness ==
    /\ cli.cmd = "remove"
    /\ cli.confirmed
    /\ cli.exit = 1
    /\ RemovalFailed(last)
    /\ dir[last.name]


\* The shell a SHELL value names: the text after its last "/".
Basename(s) ==
    LET slashes == {i \in 1..Len(s) : s[i] = "/"}
        from == IF slashes = {} THEN 1
                ELSE 1 + CHOOSE i \in slashes : \A j \in slashes : j <= i
    IN SubSeq(s, from, Len(s))

\* The shell the detection is to select for a SHELL value and an OS family.
NamedShell(shell_env, os_name) ==
    CASE Basename(shell_env) = <<"b", "a", "s", "h">> -> "bash"
      [] Basename(shell_env) = <<"z", "s", "h">> -> "zsh"
      [] Basename(shell_env) = <<"f", "i", "s", "h">> -> "fish"
      [] os_name = "nt" -> "powershell"
      [] OTHER -> "bash"

\* C11: with no shell given, a SHELL value naming bash, zsh or fish selects
\* that shell, any other SHELL selects powershell on nt and bash elsewhere,
\* and the command returned is the one returned for that shell given
\* explicitly.
C11_DetectShell ==
    (/\ last.op = "ActivationManager.get_activation_script"
     /\ last.shell = None
     /\ last.exc = "none") =>
        /\ _detect_shell(last.shell_env, last.os_name) =
               NamedShell(last.shell_env, last.os_name)
        /\ ret = <<activation_script(
                      get_env_bin_path(last.name),
                      NamedShell(last.shell_env, last.os_name))>>


\* C12: metadata is written only at creation and never updated.  A metadata
\* file appears only by a create of its environment, with the version
\* passed, an instant read then, active false and last_used null; from then
\* on it is unchanged until it is deleted; and every record list() returns
\* has status "inactive".
C12_MetadataNeverUpdated ==
    [][\A n \in Names :
          /\ meta'[n] # meta[n] =>
                \/ meta'[n] = Absent
                \/ /\ meta[n] = Absent
                   /\ last'.op = "create"
                   /\ last'.name = n
                   /\ \/ meta'[n] = Truncated
                      \/ \E now \in 0..MaxTime :
                           meta'[n] = File("object",
                               {"name", "python_version", "created_at",
                                "last_used", "active"},
                               n, last'.python_version, now, None, FALSE)
          /\ meta'[n].kind = "object" =>
                (meta'[n].active = FALSE /\ meta'[n].last_used = None)
          /\ last'.op = "list" =>
                \A i \in 1..Len(ret') : ret'[i].status = "inactive"]_vars

\* An activation command was returned for an environment whose metadata
\* the registry wrote earlier, while the other environment exists too.
C12_Witness ==
    /\ last.op = "get_activation_script"
    /\ last.exc = "none"
    /\ meta[last.name].kind = "object"
    /\ \E n \in Names : n # last.name /\ meta[n].kind = "object"


\* C13: create(a, v) and remove(a), whether they succeed or fail, leave the
\* directory and the metadata of every other environment unchanged; list,
\* both get_activation_script operations and get_deactivation_script (with
\* the existence check and the shell detection they run) change no
\* directory and no metadata file.
C13_Frame ==
    [][/\ last'.op \in {"create", "remove"} =>
            \A b \in Names \ {last'.name} :
                /\ dir'[b] = dir[b]
                /\ files'[b] = files[b]
                /\ meta'[b] = meta[b]
       /\ last'.op \in {"list", "get_activation_script",
                        "ActivationManager.get_activation_script",
                        "ActivationManager.get_deactivation_script"} =>
            UNCHANGED disk]_vars

\* An environment was removed while the other one, created by the
\* registry, is on disk.
C13_Witness ==
    /\ last.op = "remove"
    /\ last.exc = "none"
    /\ \E b \in Names :
         b # last.name /\ dir[b] /\ meta[b].kind = "object"

====
